---- MODULE Spec2Model ----
(***************************************************************************)
(* Model of the scheduler package of empire: the jsonmessageStatusStream   *)
(* (Publish / Done / Err / Wait) run by concurrent goroutines, and the     *)
(* Env / Labels merge helpers.                                             *)
(*                                                                         *)
(* A goroutine is a task with a program counter.  Every statement of a     *)
(* method that touches shared state (the done channel, s.err, the mutex,   *)
(* the sink) is one atomic step, so that the steps of concurrent calls     *)
(* interleave as the Go scheduler lets them.                               *)
(***************************************************************************)
EXTENDS Integers, Sequences, FiniteSets, TLC

\* ---- bounds ----
NumTasks == 3      \* goroutines using one stream
MaxCalls == 3      \* method calls started on the stream in one behaviour
MaxLiveCalls == 3  \* the same, in the behaviours checked for liveness
NumMsgs  == 2      \* distinct Status.Message values
NumErrs  == 1      \* distinct non-nil errors passed to Done
NumKeys  == 2      \* distinct map keys of Env / Labels
NumVals  == 2      \* distinct map values of Env / Labels
NumProcs == 2      \* processes of an App that carry an Exposure
NumCerts == 1      \* distinct non-empty HTTPSExposure.Cert strings
MaxUploads == 2    \* certificates the IAM store accepts in one behaviour
NumRequests == 3   \* requests served by PostLogs at the same time

Tasks    == 1..NumTasks
Msgs     == 1..NumMsgs
\* error values: 0 is the nil error, 1..NumErrs are the errors given to Done
NilErr   == 0
DoneErrs == NilErr..NumErrs
\* the error an io.Writer returns from a failed Write
WriteErr == NumErrs + 1
\* the mutex is held by a task, or by nobody
Unlocked == 0

Keys     == 1..NumKeys
Vals     == 1..NumVals
\* Cert strings: 0 is the empty string "", 1..NumCerts are certificate names
NoCert   == 0
Certs    == NoCert..NumCerts
Requests == 1..NumRequests
\* errors findApp can return
LookupErrs == 1..NumErrs

VARIABLES
  done,      \* s.done : [closed : BOOLEAN, len : Nat], a chan struct{} of capacity 1
  err,       \* s.err
  mu,        \* the embedded sync.Mutex : Unlocked or the task holding it
  sink,      \* what s.w has received : sequence of encoded records
  warned,    \* number of "Publish called on a finalized stream" warnings logged
  pc,        \* pc[t]   : position of task t
  arg,       \* arg[t]  : argument of the call task t is running
  late,      \* late[t] : a Done call had returned when task t started its call
  last,      \* history: the call that returned last, and what it returned
  seen,      \* history: seen[t] tells whether task t has received from the Wait()
             \* channel, on a Wait() made before ("early") or after ("late") Done returned
  passed,    \* history: the values passed to the Done calls that closed the channel
  doneRets,  \* history: number of Done calls that returned normally
  issued,    \* history: messages of the Publish calls, in call order
  orderly,   \* history: every Publish so far ran alone, before any Done, and wrote
  calls,     \* number of calls started
  app,       \* *App      : [Env, Labels]
  process,   \* *Process  : [Env, Labels]
  merged,    \* the map returned by the last Env / Labels call
  mergeOp,   \* which of Env / Labels returned it
  held,      \* the map object the caller got from that call, as it is now
  heldAt,    \* which object that is: "fresh" (made by merge) or "first" (an input)
  again,     \* the map returned by a second call on the same inputs
  stage,     \* "idle", "returned", "written" (the caller wrote to held), "again"
  exposures, \* Process.Exposure of the processes of an App : sequence of Exposure
  proto,     \* the last Protocol() call: on which exposure, and what it returned
  certs,     \* the server certificates IAM holds, by ServerCertificateName
  uploads,   \* number of certificates IAM has accepted (it numbers their IDs)
  iamLast,   \* the last IAMManager call: its arguments and what it returned
  reqs       \* reqs[r] : the PostLogs handler serving request r, and its response

streamVars == <<done, err, mu, sink, warned, pc, arg, late, last, seen, passed,
                doneRets, issued, orderly, calls>>
mergeVars  == <<app, process, merged, mergeOp, held, heldAt, again, stage>>
exposureVars == <<exposures, proto>>
\* the variables outside the stream and the merge
iamVars    == <<certs, uploads, iamLast>>
httpVars   == <<reqs>>
restVars   == <<exposureVars, iamVars, httpVars>>
vars       == <<done, err, mu, sink, warned, pc, arg, late, last, seen, passed,
                doneRets, issued, orderly, calls, app, process, merged, mergeOp,
                held, heldAt, again, stage, exposures, proto,
                certs, uploads, iamLast, reqs>>

\* ---------------------------------------------------------------------------
\* Maps.  A Go map is nil or allocated; both read as a finite function.
\* ---------------------------------------------------------------------------
EmptyKV == [k \in {} |-> 1]
NilMap  == [nil |-> TRUE, kv |-> EmptyKV]
\* make(map[string]string)
MakeMap == [nil |-> FALSE, kv |-> EmptyKV]
\* every map over Keys and Vals, and the nil map
Maps    == {NilMap} \cup
           {[nil |-> FALSE, kv |-> f] : f \in UNION {[D -> Vals] : D \in SUBSET Keys}}

\* merged[k] = v   (MapSetFavorLeft: the assignment skipped for a key already set)
MapSetFavorLeft(m, k, v) ==
  IF k \in DOMAIN m.kv THEN m
  ELSE [m EXCEPT !.kv = [j \in DOMAIN m.kv \cup {k} |-> IF j = k THEN v ELSE m.kv[j]]]
MapSet(m, k, v) ==
  [m EXCEPT !.kv = [j \in DOMAIN m.kv \cup {k} |-> IF j = k THEN v ELSE m.kv[j]]]

\* for k, v := range env { merged[k] = v }   (keys: the keys not yet visited)
RECURSIVE RangeInto(_, _, _)
RangeInto(m, env, keys) ==
  IF keys = {} THEN m
  ELSE LET k == CHOOSE x \in keys : TRUE
       IN  RangeInto(MapSet(m, k, env.kv[k]), env, keys \ {k})

\* for _, env := range envs { ... }
RECURSIVE MergeFrom(_, _)
MergeFrom(m, envs) ==
  IF envs = <<>> THEN m
  ELSE MergeFrom(RangeInto(m, Head(envs), DOMAIN Head(envs).kv), Tail(envs))

merge(envs) == MergeFrom(MakeMap, envs)

\* the object the loops of merge write into: merged := make(map[string]string)
\* is a new object   (MergeIntoFirst: the first allocated input taken as merged)
MergeIntoFirst(envs) == IF envs # <<>> /\ ~Head(envs).nil THEN "first" ELSE "fresh"
MergeInto(envs) == "fresh"

Env(a, p) == merge(<<a.Env, p.Env>>)
Labels(a, p) == merge(<<a.Labels, p.Labels>>)

\* ---------------------------------------------------------------------------
\* The stream.
\* ---------------------------------------------------------------------------
\* make(chan struct{}, 1)
MakeChan == [closed |-> FALSE, len |-> 0]
\* a receive on ch can proceed: a value is buffered, or ch is closed
RecvReady(ch) == ch.len > 0 \/ ch.closed
\* the channel after a receive that proceeded
RecvFrom(ch) == IF ch.len > 0 THEN [ch EXCEPT !.len = ch.len - 1] ELSE ch
\* close(ch), on a channel that is not yet closed   (SendSignal: ch <- struct{}{})
SendSignal(ch) == [ch EXCEPT !.len = 1]
CloseChan(ch) == [ch EXCEPT !.closed = TRUE]

\* json.NewEncoder(w).Encode(jsonmessage.JSONMessage{Status: m}) : one record
Encode(m) == [status |-> m]
\* the sink after a successful Write of one record   (WriteFront: written ahead)
WriteFront(s, rec) == <<rec>> \o s
Write(s, rec) == Append(s, rec)

\* the values a read of s.err can return: the field, or the value a Done call
\* is storing at this moment (Err takes no lock: the read races with the store)
ErrReadable == {err} \cup {arg[d] : d \in {u \in Tasks : pc[u] = "done_seterr"}}

DonePcs == {"done_lock", "done_close", "done_seterr", "done_unlock", "done_panic"}
\* a Done call has started (it is running, or has closed, or has panicked)
DoneStarted == done.closed \/ \E u \in Tasks : pc[u] \in DonePcs \cup {"panicked"}
\* a Done call has returned
DoneReturned == doneRets > 0
PublishRunning == \E u \in Tasks : pc[u] = "pub_encode"

NoCall == [op |-> "none", ret |-> NilErr, waited |-> FALSE, late |-> FALSE]

StreamInit ==
  /\ done = MakeChan
  /\ err = NilErr
  /\ mu = Unlocked
  /\ sink = <<>>
  /\ warned = 0
  /\ pc = [t \in Tasks |-> "idle"]
  /\ arg = [t \in Tasks |-> NilErr]
  /\ late = [t \in Tasks |-> FALSE]
  /\ last = NoCall
  /\ seen = [t \in Tasks |-> "no"]
  /\ passed = <<>>
  /\ doneRets = 0
  /\ issued = <<>>
  /\ orderly = TRUE
  /\ calls = 0

MergeIdle ==
  /\ app = [Env |-> NilMap, Labels |-> NilMap]
  /\ process = [Env |-> NilMap, Labels |-> NilMap]
  /\ merged = NilMap
  /\ mergeOp = "none"
  /\ held = NilMap
  /\ heldAt = "none"
  /\ again = NilMap
  /\ stage = "idle"

\* no Protocol() call made
NoProtocol == [at |-> 0, ret |-> ""]

ExposureIdle ==
  /\ exposures = <<>>
  /\ proto = NoProtocol

\* no IAMManager call made
NoIAMCall == [op |-> "none", name |-> <<>>, err |-> "nil", id |-> <<>>,
              data |-> [k \in {} |-> <<>>]]

\* NewIAMManager: a manager on a store that holds no certificate of its own yet
IAMIdle ==
  /\ certs = [k \in {} |-> <<>>]
  /\ uploads = 0
  /\ iamLast = NoIAMCall

\* a request whose handler has not started: no Content-Type header on the
\* response, no streaming, nothing returned
NewRequest == [pc |-> "start", lookup |-> NilErr, contentType |-> "",
               stream |-> "no", ret |-> NilErr]

HttpIdle == reqs = [r \in Requests |-> NewRequest]

Init == StreamInit /\ MergeIdle /\ ExposureIdle /\ IAMIdle /\ HttpIdle

\* task t is free to start a call
CanCall(t) == pc[t] = "idle" /\ calls < MaxCalls

\* task t starts a call with argument a, and stands at `at' inside it
Enter(t, a, at) ==
  /\ CanCall(t)
  /\ calls' = calls + 1
  /\ pc' = [pc EXCEPT ![t] = at]
  /\ arg' = [arg EXCEPT ![t] = a]
  /\ late' = [late EXCEPT ![t] = DoneReturned]

\* the record of a call of task t that returns r; wasLate: it started after a
\* Done call had returned
Returned(t, op, r, wasLate) ==
  [op |-> op, ret |-> r, waited |-> seen[t] # "no", late |-> wasLate]

\* task t returns r from the call it is in
Return(t, op, r) ==
  /\ pc' = [pc EXCEPT ![t] = "idle"]
  /\ arg' = [arg EXCEPT ![t] = NilErr]
  /\ late' = [late EXCEPT ![t] = FALSE]
  /\ last' = Returned(t, op, r, late[t])

\* ---- Publish ----
\* select { case <-s.done: logger.Warn(...); return nil   default: }
\* The call and its select are one step: entering the method touches nothing
\* shared before the select does.   (PublishUnchecked: the select left out)
PublishUnchecked(t, m) ==
  /\ Enter(t, m, "pub_encode")
  /\ issued' = Append(issued, m)
  /\ orderly' = (orderly /\ ~PublishRunning /\ ~DoneStarted)
  /\ UNCHANGED <<done, warned, last>>
  /\ UNCHANGED <<err, mu, sink, seen, passed, doneRets>>
  /\ UNCHANGED <<mergeVars, restVars>>
Publish(t, m) ==
  /\ CanCall(t)
  /\ calls' = calls + 1
  /\ issued' = Append(issued, m)
  /\ orderly' = (orderly /\ ~PublishRunning /\ ~DoneStarted)
  /\ IF RecvReady(done)
     THEN /\ done' = RecvFrom(done)
          /\ warned' = warned + 1
          /\ last' = Returned(t, "Publish", NilErr, DoneReturned)
          /\ UNCHANGED <<pc, arg, late>>
     ELSE /\ pc' = [pc EXCEPT ![t] = "pub_encode"]
          /\ arg' = [arg EXCEPT ![t] = m]
          /\ late' = [late EXCEPT ![t] = DoneReturned]
          /\ UNCHANGED <<done, warned, last>>
  /\ UNCHANGED <<err, mu, sink, seen, passed, doneRets>>
  /\ UNCHANGED <<mergeVars, restVars>>

\* what Publish returns for the outcome of the sink's Write
\* (PublishResultSwallowed: the write error dropped)
PublishResultSwallowed(ok) == NilErr
PublishResult(ok) == IF ok THEN NilErr ELSE WriteErr

\* return json.NewEncoder(s.w).Encode(jsonmessage.JSONMessage{Status: status.Message})
\* (PublishEncodeFinalizes: a failed write recorded as the stream's outcome)
PublishEncodeFinalizes(t) ==
  /\ pc[t] = "pub_encode"
  /\ \E ok \in BOOLEAN :
       /\ sink' = IF ok THEN Write(sink, Encode(arg[t])) ELSE sink
       /\ err' = IF ok THEN err ELSE WriteErr
       /\ orderly' = (orderly /\ ok)
       /\ Return(t, "Publish", PublishResult(ok))
  /\ UNCHANGED <<done, mu, warned, seen, passed, doneRets, issued, calls>>
  /\ UNCHANGED <<mergeVars, restVars>>
PublishEncode(t) ==
  /\ pc[t] = "pub_encode"
  /\ \E ok \in BOOLEAN :
       /\ sink' = IF ok THEN Write(sink, Encode(arg[t])) ELSE sink
       /\ orderly' = (orderly /\ ok)
       /\ Return(t, "Publish", PublishResult(ok))
  /\ UNCHANGED <<done, err, mu, warned, seen, passed, doneRets, issued, calls>>
  /\ UNCHANGED <<mergeVars, restVars>>

\* ---- Done ----
CallDone(t, e) ==
  /\ Enter(t, e, "done_lock")
  /\ orderly' = (orderly /\ ~PublishRunning)
  /\ UNCHANGED <<done, err, mu, sink, warned, last, seen, passed, doneRets, issued>>
  /\ UNCHANGED <<mergeVars, restVars>>

\* s.Lock()   (DoneLockStoresErr: the outcome stored as soon as the lock is
\* taken, ahead of the close)
DoneLockStoresErr(t) ==
  /\ pc[t] = "done_lock"
  /\ mu = Unlocked
  /\ mu' = t
  /\ err' = arg[t]
  /\ pc' = [pc EXCEPT ![t] = "done_close"]
  /\ UNCHANGED <<done, sink, warned, arg, late, last, seen, passed, doneRets,
                 issued, orderly, calls>>
  /\ UNCHANGED <<mergeVars, restVars>>
DoneLock(t) ==
  /\ pc[t] = "done_lock"
  /\ mu = Unlocked
  /\ mu' = t
  /\ pc' = [pc EXCEPT ![t] = "done_close"]
  /\ UNCHANGED <<done, err, sink, warned, arg, late, last, seen, passed, doneRets,
                 issued, orderly, calls>>
  /\ UNCHANGED <<mergeVars, restVars>>

\* close(s.done): panics when the channel is already closed
\* (DoneCloseIdempotent: a second close accepted; DoneCloseSends: a value sent
\* on the channel instead of closing it)
DoneCloseIdempotent(t) ==
  /\ pc[t] = "done_close"
  /\ done' = CloseChan(done)
  /\ passed' = Append(passed, arg[t])
  /\ pc' = [pc EXCEPT ![t] = "done_seterr"]
  /\ UNCHANGED <<err, mu, sink, warned, arg, late, last, seen, doneRets, issued,
                 orderly, calls>>
  /\ UNCHANGED <<mergeVars, restVars>>
DoneCloseSends(t) ==
  /\ pc[t] = "done_close"
  /\ done' = SendSignal(done)
  /\ passed' = Append(passed, arg[t])
  /\ pc' = [pc EXCEPT ![t] = "done_seterr"]
  /\ UNCHANGED <<err, mu, sink, warned, arg, late, last, seen, doneRets, issued,
                 orderly, calls>>
  /\ UNCHANGED <<mergeVars, restVars>>
DoneClose(t) ==
  /\ pc[t] = "done_close"
  /\ IF done.closed
     THEN /\ pc' = [pc EXCEPT ![t] = "done_panic"]
          /\ UNCHANGED <<done, passed>>
     ELSE /\ done' = CloseChan(done)
          /\ passed' = Append(passed, arg[t])
          /\ pc' = [pc EXCEPT ![t] = "done_seterr"]
  /\ UNCHANGED <<err, mu, sink, warned, arg, late, last, seen, doneRets, issued,
                 orderly, calls>>
  /\ UNCHANGED <<mergeVars, restVars>>

\* s.err = err
\* (DoneSetErrDropped: the store left out; DoneSetErrSentinel: the outcome
\* also written to the sink as a final record)
DoneSetErrDropped(t) ==
  /\ pc[t] = "done_seterr"
  /\ pc' = [pc EXCEPT ![t] = "done_unlock"]
  /\ UNCHANGED <<done, err, mu, sink, warned, arg, late, last, seen, passed, doneRets,
                 issued, orderly, calls>>
  /\ UNCHANGED <<mergeVars, restVars>>
DoneSetErrSentinel(t) ==
  /\ pc[t] = "done_seterr"
  /\ err' = arg[t]
  /\ sink' = Write(sink, Encode(arg[t]))
  /\ pc' = [pc EXCEPT ![t] = "done_unlock"]
  /\ UNCHANGED <<done, mu, warned, arg, late, last, seen, passed, doneRets,
                 issued, orderly, calls>>
  /\ UNCHANGED <<mergeVars, restVars>>
DoneSetErr(t) ==
  /\ pc[t] = "done_seterr"
  /\ err' = arg[t]
  /\ pc' = [pc EXCEPT ![t] = "done_unlock"]
  /\ UNCHANGED <<done, mu, sink, warned, arg, late, last, seen, passed, doneRets,
                 issued, orderly, calls>>
  /\ UNCHANGED <<mergeVars, restVars>>

\* the deferred s.Unlock(), on the normal return
DoneUnlock(t) ==
  /\ pc[t] = "done_unlock"
  /\ mu' = Unlocked
  /\ doneRets' = doneRets + 1
  /\ Return(t, "Done", NilErr)
  /\ UNCHANGED <<done, err, sink, warned, seen, passed, issued, orderly, calls>>
  /\ UNCHANGED <<mergeVars, restVars>>

\* the deferred s.Unlock(), run while the panic of close unwinds the call;
\* the goroutine never returns from Done
DonePanic(t) ==
  /\ pc[t] = "done_panic"
  /\ mu' = Unlocked
  /\ pc' = [pc EXCEPT ![t] = "panicked"]
  /\ UNCHANGED <<done, err, sink, warned, arg, late, last, seen, passed, doneRets,
                 issued, orderly, calls>>
  /\ UNCHANGED <<mergeVars, restVars>>

\* ---- Wait ----
\* ch := s.Wait()
Wait(t) ==
  /\ Enter(t, NilErr, "recv")
  /\ UNCHANGED <<done, err, mu, sink, warned, last, seen, passed, doneRets,
                 issued, orderly>>
  /\ UNCHANGED <<mergeVars, restVars>>

\* <-ch : blocks until the channel is ready
Recv(t) ==
  /\ pc[t] = "recv"
  /\ RecvReady(done)
  /\ done' = RecvFrom(done)
  /\ seen' = [seen EXCEPT ![t] = IF late[t] THEN "late" ELSE "early"]
  /\ pc' = [pc EXCEPT ![t] = "idle"]
  /\ late' = [late EXCEPT ![t] = FALSE]
  /\ last' = [op |-> "Wait", ret |-> NilErr, waited |-> TRUE, late |-> late[t]]
  /\ UNCHANGED <<err, mu, sink, warned, arg, passed, doneRets, issued, orderly, calls>>
  /\ UNCHANGED <<mergeVars, restVars>>

\* ---- Err ----
\* return s.err   (ErrLocked: the field read under the mutex)
ErrLocked(t) ==
  /\ CanCall(t)
  /\ mu = Unlocked
  /\ calls' = calls + 1
  /\ last' = Returned(t, "Err", err, DoneReturned)
  /\ UNCHANGED <<done, err, mu, sink, warned, pc, arg, late, seen, passed, doneRets,
                 issued, orderly>>
  /\ UNCHANGED <<mergeVars, restVars>>
Err(t) ==
  /\ CanCall(t)
  /\ calls' = calls + 1
  /\ \E v \in ErrReadable : last' = Returned(t, "Err", v, DoneReturned)
  /\ UNCHANGED <<done, err, mu, sink, warned, pc, arg, late, seen, passed, doneRets,
                 issued, orderly>>
  /\ UNCHANGED <<mergeVars, restVars>>

\* the steps a goroutine takes inside a call it has started
Step(t) ==
  \/ PublishEncode(t)
  \/ DoneLock(t)
  \/ DoneClose(t)
  \/ DoneSetErr(t)
  \/ DoneUnlock(t)
  \/ DonePanic(t)
  \/ Recv(t)

\* the calls a goroutine can start
Call(t) ==
  \/ \E m \in Msgs : Publish(t, m)
  \/ \E e \in DoneErrs : CallDone(t, e)
  \/ Wait(t)
  \/ Err(t)

Next == \E t \in Tasks : Call(t) \/ Step(t)

Spec == Init /\ [][Next]_vars

\* The same program under a fair scheduler: the Go runtime runs every runnable
\* goroutine, so a call that has started keeps taking its steps.  Progress does
\* not depend on the values published or passed to Done, so the calls take one
\* message and the nil outcome.
LiveCall(t) ==
  \/ Publish(t, CHOOSE m \in Msgs : TRUE)
  \/ CallDone(t, NilErr)
  \/ Wait(t)
  \/ Err(t)

LiveNext == \E t \in Tasks : (calls < MaxLiveCalls /\ LiveCall(t)) \/ Step(t)

LiveSpec == Init /\ [][LiveNext]_vars /\ \A t \in Tasks : WF_vars(Step(t))

\* ---------------------------------------------------------------------------
\* Env / Labels on inputs drawn from Maps: every pair of maps is the (app,
\* process) input of Env, and, the other way round, of Labels.
\* ---------------------------------------------------------------------------
MergeInit ==
  /\ StreamInit
  /\ ExposureIdle
  /\ IAMIdle
  /\ HttpIdle
  /\ \E A \in Maps, P \in Maps :
       /\ app = [Env |-> A, Labels |-> P]
       /\ process = [Env |-> P, Labels |-> A]
  /\ merged = NilMap
  /\ mergeOp = "none"
  /\ held = NilMap
  /\ heldAt = "none"
  /\ again = NilMap
  /\ stage = "idle"

\* the App after a call of Env / Labels whose merge wrote into object `at':
\* the field is what merge left in it when the object is the app's own map
AppAfter(field, at, m) == IF at = "first" THEN [app EXCEPT ![field] = m] ELSE app

CallEnv ==
  /\ stage = "idle"
  /\ merged' = Env(app, process)
  /\ mergeOp' = "Env"
  /\ held' = merged'
  /\ heldAt' = MergeInto(<<app.Env, process.Env>>)
  /\ app' = AppAfter("Env", heldAt', merged')
  /\ stage' = "returned"
  /\ UNCHANGED <<process, again>>
  /\ UNCHANGED <<streamVars, restVars>>

CallLabels ==
  /\ stage = "idle"
  /\ merged' = Labels(app, process)
  /\ mergeOp' = "Labels"
  /\ held' = merged'
  /\ heldAt' = MergeInto(<<app.Labels, process.Labels>>)
  /\ app' = AppAfter("Labels", heldAt', merged')
  /\ stage' = "returned"
  /\ UNCHANGED <<process, again>>
  /\ UNCHANGED <<streamVars, restVars>>

\* the caller assigns held[k] = v on the map it was returned
WriteReturned(k, v) ==
  /\ stage = "returned"
  /\ held' = MapSet(held, k, v)
  /\ app' = AppAfter(mergeOp, heldAt, held')
  /\ stage' = "written"
  /\ UNCHANGED <<process, merged, mergeOp, heldAt, again>>
  /\ UNCHANGED <<streamVars, restVars>>

\* the caller calls the same function again, on the same App and Process
CallAgain ==
  /\ stage = "written"
  /\ again' = IF mergeOp = "Env" THEN Env(app, process) ELSE Labels(app, process)
  /\ app' = AppAfter(mergeOp, MergeInto(<<app[mergeOp], process[mergeOp]>>), again')
  /\ stage' = "again"
  /\ UNCHANGED <<process, merged, mergeOp, held, heldAt>>
  /\ UNCHANGED <<streamVars, restVars>>

MergeNext ==
  \/ CallEnv
  \/ CallLabels
  \/ \E k \in Keys, v \in Vals : WriteReturned(k, v)
  \/ CallAgain

MergeSpec == MergeInit /\ [][MergeNext]_vars

\* ---------------------------------------------------------------------------
\* Exposure.  ExposureType is an interface with two implementations; a call
\* of Protocol() runs the method of the value's dynamic type.
\* ---------------------------------------------------------------------------
HTTPExposure == [kind |-> "HTTPExposure"]
HTTPSExposure(cert) == [kind |-> "HTTPSExposure", Cert |-> cert]
ExposureTypes == {HTTPExposure} \cup {HTTPSExposure(c) : c \in Certs}
Exposures == [External : BOOLEAN, Type : ExposureTypes]

\* func (e *HTTPExposure) Protocol() string
HTTPExposureProtocol(e) == "http"
\* func (e *HTTPSExposure) Protocol() string   (HTTPSExposureProtocolByCert:
\* an HTTPS exposure without a certificate reported as plain http)
HTTPSExposureProtocolByCert(e) == IF e.Cert = NoCert THEN "http" ELSE "https"
HTTPSExposureProtocol(e) == "https"

\* ty.Protocol() on an ExposureType value
Protocol(ty) ==
  IF ty.kind = "HTTPSExposure" THEN HTTPSExposureProtocol(ty)
  ELSE HTTPExposureProtocol(ty)

ExposureInit ==
  /\ StreamInit
  /\ MergeIdle
  /\ IAMIdle
  /\ HttpIdle
  /\ \E n \in 1..NumProcs : exposures \in [1..n -> Exposures]
  /\ proto = NoProtocol

\* exposures[i].Type.Protocol()
CallProtocol(i) ==
  /\ proto' = [at |-> i, ret |-> Protocol(exposures[i].Type)]
  /\ UNCHANGED exposures
  /\ UNCHANGED <<streamVars, mergeVars, iamVars, httpVars>>

ExposureNext == \E i \in DOMAIN exposures : CallProtocol(i)

ExposureSpec == ExposureInit /\ [][ExposureNext]_vars

\* ---------------------------------------------------------------------------
\* IAMManager.  Strings are sequences of pieces, so that "web" + "Cert" and the
\* name "webCert" are the same string.  A *string is <<>> (nil) or <<v>>.
\* The IAM service is the AWS API behind m.iam: a call to it succeeds or fails
\* as the service decides, within what the API allows.
\* ---------------------------------------------------------------------------
Names == {<<"web">>, <<"web", "Cert">>, <<"api">>}
\* m.path
Path == <<"/empire/">>
\* CertificateChain values SplitCertChain hands back: none, or the chain
Chains == {<<>>, <<"chain">>}

\* fmt.Sprintf("%sCert", name)
certName(name) == name \o <<"Cert">>

\* the ServerCertificateID IAM gives to the n-th certificate it accepts
CertID(n) == <<"ASCA", n>>
\* the ARN of the certificate stored under `sname'
Arn(sname) == <<"arn:aws:iam:server-certificate">> \o Path \o sname

EmptyData == [k \in {} |-> <<>>]

\* the manager's call returns
IAMReturn(op, name, e, id, data) ==
  /\ iamLast' = [op |-> op, name |-> name, err |-> e, id |-> id, data |-> data]
  /\ UNCHANGED <<streamVars, mergeVars, exposureVars, httpVars>>

\* the store without the certificate named sname
Without(sname) == [k \in DOMAIN certs \ {sname} |-> certs[k]]

\* Add(name, cert, key), where SplitCertChain(cert) gave primary and chain.
\* UploadServerCertificate refuses a name in use; addedAs is history: the
\* name the manager was given
Add(name, primary, chain, key) ==
  LET sname == certName(name)
      input == [CertificateBody |-> primary, PrivateKey |-> key,
                ServerCertificateName |-> sname, Path |-> Path,
                CertificateChain |-> IF Len(chain) > 0 THEN <<chain>> ELSE <<>>]
  IN  \/ /\ sname \notin DOMAIN certs
         /\ uploads < MaxUploads
         /\ uploads' = uploads + 1
         /\ certs' = [k \in DOMAIN certs \cup {sname} |->
                        IF k = sname
                        THEN [ID |-> CertID(uploads'), input |-> input, addedAs |-> name]
                        ELSE certs[k]]
         /\ IAMReturn("Add", name, "nil", CertID(uploads'), EmptyData)
      \/ /\ \E e \in IF sname \in DOMAIN certs THEN {"EntityAlreadyExists"}
                       ELSE {"ServiceFailure"} :
              IAMReturn("Add", name, e, <<>>, EmptyData)
         /\ UNCHANGED <<certs, uploads>>

\* m.iam.DeleteServerCertificate on store name sname, for the call Remove(name)
DeleteServerCertificate(name, sname) ==
  \/ /\ sname \in DOMAIN certs
     /\ certs' = Without(sname)
     /\ IAMReturn("Remove", name, "nil", <<>>, EmptyData)
  \/ /\ \E e \in IF sname \in DOMAIN certs THEN {"ServiceFailure"}
                   ELSE {"NoSuchEntity"} :
          IAMReturn("Remove", name, e, <<>>, EmptyData)
     /\ UNCHANGED certs

\* Remove(name)   (RemoveRawName: the name passed to IAM as it is)
RemoveRawName(name) ==
  /\ DeleteServerCertificate(name, name)
  /\ UNCHANGED uploads
Remove(name) ==
  /\ DeleteServerCertificate(name, certName(name))
  /\ UNCHANGED uploads

\* MetaData(name).  arn is the ARN field of the metadata GetServerCertificate
\* answers with: a *string, nil or the certificate's ARN
MetaData(name) ==
  LET sname == certName(name)
  IN  /\ \/ /\ sname \in DOMAIN certs
             /\ \E arn \in {<<>>, <<Arn(sname)>>} :
                  IAMReturn("MetaData", name, "nil", <<>>,
                            IF arn # <<>> THEN [k \in {"ARN"} |-> arn[1]] ELSE EmptyData)
          \/ \E e \in IF sname \in DOMAIN certs THEN {"ServiceFailure"}
                       ELSE {"NoSuchEntity"} :
               IAMReturn("MetaData", name, e, <<>>, EmptyData)
      /\ UNCHANGED <<certs, uploads>>

IAMInit ==
  /\ StreamInit
  /\ MergeIdle
  /\ ExposureIdle
  /\ HttpIdle
  /\ IAMIdle

IAMCall(name) ==
  \/ \E chain \in Chains : Add(name, <<"cert">>, chain, <<"key">>)
  \/ Remove(name)
  \/ MetaData(name)

IAMNext == \E name \in Names : IAMCall(name)

IAMSpec == IAMInit /\ [][IAMNext]_vars

\* ---------------------------------------------------------------------------
\* PostLogs.ServeHTTPContext.  Each request has its own handler call and its
\* own ResponseWriter; the handlers of different requests interleave.  What
\* findApp and StreamLogs answer is theirs to decide.
\* ---------------------------------------------------------------------------
ContentTypeJSON == "application/json; boundary=NL"

\* a, err := findApp(ctx, h); if err != nil { return err }
FindApp(r) ==
  /\ reqs[r].pc = "start"
  /\ \E e \in {NilErr} \cup LookupErrs :
       reqs' = [reqs EXCEPT ![r] =
                  IF e # NilErr
                  THEN [@ EXCEPT !.lookup = e, !.ret = e, !.pc = "returned"]
                  ELSE [@ EXCEPT !.pc = "found"]]
  /\ UNCHANGED <<streamVars, mergeVars, exposureVars, iamVars>>

\* w.Header().Set("Content-Type", "application/json; boundary=NL")
SetContentType(r) ==
  /\ reqs[r].pc = "found"
  /\ reqs' = [reqs EXCEPT ![r].contentType = ContentTypeJSON, ![r].pc = "headed"]
  /\ UNCHANGED <<streamVars, mergeVars, exposureVars, iamVars>>

\* rw := streamhttp.StreamingResponseWriter(w); h.StreamLogs(a, rw)
\* the streaming runs, and ends well or with an error
StreamLogs(r) ==
  /\ reqs[r].pc = "headed"
  /\ \E outcome \in {"ok", "failed"} :
       reqs' = [reqs EXCEPT ![r].stream = outcome, ![r].pc = "streamed"]
  /\ UNCHANGED <<streamVars, mergeVars, exposureVars, iamVars>>

\* return nil   (ServeReturnStreamErr: the error of the streaming returned)
ServeReturnStreamErr(r) ==
  /\ reqs[r].pc = "streamed"
  /\ reqs' = [reqs EXCEPT ![r].ret = IF reqs[r].stream = "failed" THEN WriteErr ELSE NilErr,
                           ![r].pc = "returned"]
  /\ UNCHANGED <<streamVars, mergeVars, exposureVars, iamVars>>
ServeReturn(r) ==
  /\ reqs[r].pc = "streamed"
  /\ reqs' = [reqs EXCEPT ![r].ret = NilErr, ![r].pc = "returned"]
  /\ UNCHANGED <<streamVars, mergeVars, exposureVars, iamVars>>

HttpInit ==
  /\ StreamInit
  /\ MergeIdle
  /\ ExposureIdle
  /\ IAMIdle
  /\ HttpIdle

ServeHTTPContext(r) ==
  \/ FindApp(r)
  \/ SetContentType(r)
  \/ StreamLogs(r)
  \/ ServeReturn(r)

HttpNext == \E r \in Requests : ServeHTTPContext(r)

HttpSpec == HttpInit /\ [][HttpNext]_vars

\* ---------------------------------------------------------------------------
\* Properties.
\* ---------------------------------------------------------------------------
\* task t takes a step of the call it is running
Moves(t) == pc'[t] # pc[t]

\* a Publish call starts in this step
PublishStarts == Len(issued') > Len(issued)

\* the records of a sequence of messages
Records(ms) == [i \in 1..Len(ms) |-> Encode(ms[i])]

\* C1: an Err() call made by a consumer after it received from the Wait()
\* channel returns exactly the value that was passed to Done.
C1_ErrAfterWaitReturnsOutcome ==
  (last.op = "Err" /\ last.waited) => (passed # <<>> /\ last.ret = passed[1])

\* C2: every write to the sink happens while the stream is still Open (the
\* done channel is not closed at the moment of the write).
C2_NoSinkWriteWhenClosed == [][sink' # sink => ~done.closed]_vars

\* C3: a Publish call that starts after a Done call has returned returns nil
\* at once and leaves the sink as it was, for every message.
C3_LatePublishIsNoOp ==
  [][(DoneReturned /\ PublishStarts)
       => /\ last'.op = "Publish" /\ last'.late
          /\ last'.ret = NilErr
          /\ pc' = pc
          /\ sink' = sink]_vars

C3_Witness ==
  /\ last.op = "Publish" /\ last.late /\ last.ret = NilErr
  /\ err # NilErr
  /\ Len(issued) = 2 /\ Len(sink) = 1
  /\ warned = 1

\* C4: when the Publish calls were issued one after another, all before Done,
\* and every write succeeded, the closed stream's sink holds exactly one
\* record per call, carrying the messages in call order.
C4_SinkHoldsPublishedInOrder ==
  (done.closed /\ orderly) => sink = Records(issued)

C4_Witness ==
  /\ done.closed /\ orderly
  /\ Len(issued) = 2 /\ issued[1] # issued[2]
  /\ Len(sink) = 2

\* what holds once a Done(x) call has returned: the channel is ready, a read
\* of s.err gives x, and an Err() call started since then returned x
C5_AfterDone ==
  DoneReturned =>
    /\ RecvReady(done)
    /\ ErrReadable = {passed[1]}
    /\ (last.op = "Err" /\ last.late) => last.ret = passed[1]

\* C5: once a Done(x) call has returned, the Wait() channel is ready and
\* Err() returns x, for waiters that called Wait() before or after; and a
\* channel that is ready stays ready after every step (also after receives).
C5_DoneIsStickyAndRecorded ==
  [](C5_AfterDone) /\ [][RecvReady(done) => RecvReady(done')]_vars

C5_Witness ==
  /\ doneRets = 1 /\ err # NilErr
  /\ \E t \in Tasks : seen[t] = "early"
  /\ \E t \in Tasks : seen[t] = "late"

\* the steps of a Done call of task t: close succeeds on an open channel and
\* panics on a closed one; a panicking call only unwinds
C6_DoneStep(t) ==
  /\ (pc[t] = "done_close" /\ Moves(t))
       => IF done.closed
          THEN pc'[t] = "done_panic" /\ done' = done /\ err' = err
          ELSE pc'[t] = "done_seterr" /\ done'.closed
  /\ pc[t] = "done_panic"
       => /\ pc'[t] \in {"done_panic", "panicked"}
          /\ done' = done /\ err' = err
          /\ (Moves(t) => mu = t /\ mu' = Unlocked)
  /\ pc[t] = "panicked" => pc'[t] = "panicked" /\ done'.closed /\ err' = err

\* C6: only the Done call that finds the channel open completes; a Done call
\* that finds it closed panics, never returns, changes neither the channel
\* nor the recorded outcome, and its deferred Unlock releases the mutex.
C6_SecondDoneIsFatal ==
  [][/\ \A t \in Tasks : C6_DoneStep(t)
     /\ doneRets' <= 1
     /\ (done.closed => done'.closed)
     /\ (DoneReturned => err' = err)]_vars

C6_Witness ==
  \E t \in Tasks :
    /\ pc[t] = "panicked" /\ arg[t] # err
    /\ doneRets = 1 /\ mu = Unlocked /\ done.closed

\* C7: under fair scheduling, once Done has been called every task blocked
\* in a receive on the Wait() channel eventually proceeds, whether it started
\* waiting before or after the call.
C7_WaitersProceed ==
  \A t \in Tasks : (DoneStarted /\ pc[t] = "recv") ~> (pc[t] # "recv")

C7_Witness ==
  /\ doneRets = 1
  /\ Cardinality({t \in Tasks : seen[t] = "early"}) = 2

\* the writing step of a Publish call of task t
C8_PublishStep(t) ==
  (pc[t] = "pub_encode" /\ Moves(t))
    => /\ pc'[t] = "idle" /\ last'.op = "Publish"
       /\ (last'.ret = NilErr <=> sink' = Append(sink, Encode(arg[t])))
       /\ (last'.ret # NilErr => last'.ret = WriteErr)
       /\ done' = done /\ err' = err

\* C8: the step of Publish that writes returns nil exactly when the record
\* was written and the write error otherwise; it changes neither the channel
\* nor s.err; and while the channel is not ready a Publish goes on to write.
C8_PublishReturnsWriteError ==
  [][/\ \A t \in Tasks : C8_PublishStep(t)
     /\ (PublishStarts /\ ~RecvReady(done))
          => \E t \in Tasks : pc[t] = "idle" /\ pc'[t] = "pub_encode"]_vars

C8_Witness ==
  /\ last.op = "Publish" /\ last.ret = NilErr
  /\ ~RecvReady(done) /\ err = NilErr
  /\ orderly = FALSE
  /\ Len(issued) = 2 /\ issued[1] # issued[2]
  /\ sink = <<Encode(issued[2])>>

\* C9: no step of a Done call, for any outcome passed to it, changes the
\* sink.
C9_DoneWritesNothing ==
  [][\A t \in Tasks :
       ((pc[t] \in DonePcs \/ pc'[t] \in DonePcs) /\ Moves(t)) => sink' = sink]_vars

C9_Witness ==
  /\ doneRets = 1 /\ err # NilErr
  /\ Len(sink) = 1 /\ orderly

\* r is the allocated union of A and P, P winning on a shared key
IsMerge(r, A, P) ==
  /\ r.nil = FALSE
  /\ DOMAIN r.kv = DOMAIN A.kv \cup DOMAIN P.kv
  /\ \A k \in DOMAIN P.kv : r.kv[k] = P.kv[k]
  /\ \A k \in DOMAIN A.kv \ DOMAIN P.kv : r.kv[k] = A.kv[k]

\* C10: Env and Labels return an allocated map whose keys are the union of
\* the keys of the app-level and the process-level map, the process-level
\* value winning on a shared key; two nil maps give an empty allocated map.
C10_MergeIsRightBiasedUnion ==
  /\ mergeOp = "Env" => IsMerge(merged, app.Env, process.Env)
  /\ mergeOp = "Labels" => IsMerge(merged, app.Labels, process.Labels)

C10_Witness ==
  /\ mergeOp = "Labels"
  /\ \E k \in DOMAIN app.Labels.kv \cap DOMAIN process.Labels.kv :
       /\ app.Labels.kv[k] # process.Labels.kv[k]
       /\ merged.kv[k] = process.Labels.kv[k]
  /\ \E k \in DOMAIN app.Labels.kv : k \notin DOMAIN process.Labels.kv


\* C11: Env and Labels leave the App's and the Process's maps as they were, and
\* return a map of their own: after the caller writes to the returned map the
\* inputs still hold what they held, and a second call on the same inputs
\* returns what the first call returned.
C11_MergeReturnsFreshMap ==
  /\ [](stage # "idle" => heldAt = "fresh")
  /\ [](stage = "again" => again = merged)
  /\ [][app' = app /\ process' = process]_vars

\* a caller changed an entry of the map Env returned for an allocated app map,
\* and called Env again
C11_Witness ==
  /\ stage = "again"
  /\ mergeOp = "Env"
  /\ ~app.Env.nil
  /\ merged.kv # EmptyKV
  /\ held # merged
  /\ again = merged

\* C12: Protocol() returns "https" on an HTTPSExposure, whatever its Cert (the
\* empty string included), and "http" on an HTTPExposure; the result follows
\* from the variant alone, not from Cert and not from Exposure.External.
C12_ProtocolFollowsVariant ==
  proto.at # 0 =>
    proto.ret = (IF exposures[proto.at].Type.kind = "HTTPSExposure"
                 THEN "https" ELSE "http")

\* Protocol() was called on an internal HTTPS exposure with the empty Cert
C12_Witness ==
  /\ proto.at # 0
  /\ exposures[proto.at] = [External |-> FALSE, Type |-> HTTPSExposure(NoCert)]
  /\ proto.ret = "https"

\* C13: a MetaData(name) call that returns a nil error returns a map with an
\* "ARN" entry, the ARN of the certificate stored under the name's store name.
C13_MetaDataHasARN ==
  (iamLast.op = "MetaData" /\ iamLast.err = "nil") =>
    /\ "ARN" \in DOMAIN iamLast.data
    /\ iamLast.data["ARN"] = Arn(certName(iamLast.name))

\* the certificates in the store that were added under the name of the call
\* that returns in this step
Mine == {k \in DOMAIN certs : certs[k].addedAs = iamLast'.name}

\* the step of an IAMManager call: what it returns and what it does to the
\* store, told by the name the call was given
C19_Step ==
  /\ \A k \in DOMAIN certs \ Mine : k \in DOMAIN certs' /\ certs'[k] = certs[k]
  /\ (iamLast'.op = "Add" /\ iamLast'.err = "nil") =>
       \E k \in DOMAIN certs' \ DOMAIN certs :
         /\ DOMAIN certs' = DOMAIN certs \cup {k}
         /\ certs'[k].addedAs = iamLast'.name
         /\ certs'[k].ID = iamLast'.id
  /\ (iamLast'.op = "Add" /\ iamLast'.err # "nil") => certs' = certs
  /\ iamLast'.op = "Remove" =>
       /\ iamLast'.err = "nil" => (Mine # {} /\ DOMAIN certs' = DOMAIN certs \ Mine)
       /\ iamLast'.err # "nil" => certs' = certs
       /\ iamLast'.err = "NoSuchEntity" <=> Mine = {}
  /\ iamLast'.op = "MetaData" =>
       /\ certs' = certs
       /\ iamLast'.err = "nil" =>
            /\ Mine # {}
            /\ \A f \in DOMAIN iamLast'.data :
                 \E k \in Mine : iamLast'.data[f] = Arn(k)
       /\ iamLast'.err = "NoSuchEntity" <=> Mine = {}

\* C19: Add, Remove and MetaData address the store by the same derived name,
\* name + "Cert".  A certificate added under a name is the one a later
\* MetaData of that name reads and a later Remove of that name deletes, and a
\* call on another name leaves it in the store as it is.
C19_OneStoreNamePerName ==
  /\ [](\A k \in DOMAIN certs : k = certs[k].addedAs \o <<"Cert">>)
  /\ [][C19_Step]_vars

\* the certificate added as "web" was removed by Remove("web") while the one
\* added as "webCert" is still in the store
C19_Witness ==
  /\ iamLast.op = "Remove"
  /\ iamLast.err = "nil"
  /\ iamLast.name = <<"web">>
  /\ uploads = 2
  /\ \E k \in DOMAIN certs : certs[k].addedAs = <<"web", "Cert">>

\* a step of a Done call: the call starts, or takes one of its steps
DoneStep == \E t \in Tasks : Moves(t) /\ (pc[t] \in DonePcs \/ pc'[t] \in DonePcs)

\* C14: in every state, the states inside a Done call included, a recorded
\* error that is not nil means the channel is closed; while the channel is
\* open every read of the error gives nil, so Err() returns a non-nil error
\* only once the Wait() channel is ready.
C14_ErrorOnlyWhenClosed ==
  /\ (err # NilErr => done.closed)
  /\ (\A v \in ErrReadable : v # NilErr => (done.closed /\ RecvReady(done)))
  /\ ((last.op = "Err" /\ last.ret # NilErr) => RecvReady(done))

\* a Done call that recorded a non-nil error and still holds the lock
C14_Witness ==
  \E t \in Tasks : pc[t] = "done_unlock" /\ mu = t /\ err # NilErr /\ done.closed

\* C15: the Wait() channel is ready exactly when Done has closed it.  Nothing
\* is ever sent on it, so its buffer stays empty, no receive proceeds while
\* the stream is open, and the check in Publish takes nothing from it.
C15_ReadyIffClosed ==
  /\ [](RecvReady(done) <=> done.closed)
  /\ [](done.len = 0)
  /\ []((warned > 0 \/ \E t \in Tasks : seen[t] # "no") => done.closed)
  /\ [][done'.len = done.len]_vars
  /\ [][(\E t \in Tasks : pc[t] = "recv" /\ Moves(t)) => done.closed]_vars

\* the stream is open after a Publish that wrote, a Wait() whose receive is
\* blocked, and an Err()
C15_Witness ==
  /\ ~done.closed /\ ~RecvReady(done)
  /\ \E t \in Tasks : pc[t] = "recv"
  /\ Len(sink) = 1
  /\ last.op = "Err"

\* C16: a step of Publish, Wait or Err changes neither the closed flag of the
\* channel nor the recorded error, whether the stream is open or closed and
\* whether the write succeeds or fails; only the close inside Done takes the
\* stream from open to closed, and no step reopens it.
C16_OnlyDoneChangesLifecycle ==
  [][/\ ~DoneStep => (done'.closed = done.closed /\ err' = err)
     /\ done.closed => done'.closed
     /\ (done'.closed /\ ~done.closed) => \E t \in Tasks : pc[t] = "done_close" /\ Moves(t)
    ]_vars

\* a Publish whose write failed returned its error, with a waiter blocked, and
\* the stream is still open with no error recorded
C16_Witness ==
  /\ last.op = "Publish" /\ last.ret = WriteErr
  /\ ~done.closed /\ err = NilErr
  /\ \E t \in Tasks : pc[t] = "recv"

\* C17: Publish, Wait and Err never take the mutex: only the steps of Done
\* change it and only a Done call holds it.  Whoever holds it, a task free to
\* call can start Publish, Wait() and Err(), a started Publish can write and
\* return, and a receive on the Wait() channel waits for the channel alone.
C17_NoLockOutsideDone ==
  /\ [](mu # Unlocked => pc[mu] \in {"done_close", "done_seterr", "done_unlock", "done_panic"})
  /\ [](\A t \in Tasks :
          /\ CanCall(t) => /\ \A m \in Msgs : ENABLED Publish(t, m)
                           /\ ENABLED Wait(t)
                           /\ ENABLED Err(t)
          /\ pc[t] = "pub_encode" => ENABLED PublishEncode(t)
          /\ pc[t] = "recv" => (ENABLED Recv(t) <=> RecvReady(done)))
  /\ [][mu' # mu => DoneStep]_vars

\* a Publish called after the close returned while the Done call that closed
\* the channel still holds the lock
C17_Witness ==
  /\ \E d \in Tasks : pc[d] = "done_seterr" /\ mu = d
  /\ warned = 1
  /\ last.op = "Publish"

\* what holds of one request at every moment of its handler
C18_Request(q) ==
  /\ q.lookup # NilErr =>
       /\ q.pc = "returned" /\ q.ret = q.lookup
       /\ q.contentType = "" /\ q.stream = "no"
  /\ q.stream # "no" => q.contentType = ContentTypeJSON
  /\ (q.pc = "returned" /\ q.lookup = NilErr) =>
       /\ q.ret = NilErr
       /\ q.stream # "no" /\ q.contentType = ContentTypeJSON

\* C18: when the lookup fails the handler returns the lookup's error, sets no
\* Content-Type and starts no streaming; when it succeeds the Content-Type is
\* "application/json; boundary=NL" before the streaming starts, and the
\* handler returns nil whether the streaming ended well or not.
C18_LookupDecidesResponse ==
  /\ [](\A r \in Requests : C18_Request(reqs[r]))
  /\ [][\A r \in Requests :
          reqs'[r].stream # reqs[r].stream =>
            (reqs[r].contentType = ContentTypeJSON /\ reqs[r].lookup = NilErr)]_vars

\* one request ended with the lookup's error and no header, another returned
\* nil after a streaming that failed
C18_Witness ==
  \E r1 \in Requests, r2 \in Requests :
    /\ reqs[r1].pc = "returned" /\ reqs[r1].lookup # NilErr /\ reqs[r1].contentType = ""
    /\ reqs[r2].pc = "returned" /\ reqs[r2].stream = "failed" /\ reqs[r2].ret = NilErr
====
